---- MODULE Spec2Model ----
(***************************************************************************)
(* Model of src/src/intel_fs/server.py: the sandboxed filesystem tools     *)
(* ping, list_files, read_file, explain_repository and smart_search, the   *)
(* resolver _safe_resolve and the extractor _summarize_python_ast.         *)
(*                                                                         *)
(* Representation.                                                         *)
(*  - A physical path is the sequence of its components from "/", so       *)
(*    <<>> is "/" and BASE_DIR is <<"base">>.                              *)
(*  - A caller path is [lead, parts]: lead is the class of its first       *)
(*    character ("/" , "~" or "" for anything else), parts its components. *)
(*  - Text is a sequence of characters [k, n]; k is the class of the       *)
(*    character and n tells characters of one class apart.  A statement    *)
(*    of Python source is abstracted to one character of class def,        *)
(*    async, class, import, from, fromrel or nest.                         *)
(*  - The filesystem fs maps physical paths to nodes.  It is a variable    *)
(*    that no tool ever writes.                                            *)
(*                                                                         *)
(* Specifications.                                                         *)
(*  - Spec: one call of a tool (or of the extractor), run as a whole;      *)
(*    req, resp and acc hold its arguments, its answer and its filesystem  *)
(*    accesses.                                                            *)
(*  - SpecEngines: the two engine bodies of smart_search applied to the    *)
(*    same arguments; rgOut and pyOut hold their answers.                  *)
(*  - SpecConc: two calls advancing step by step; pc, call, frame and out  *)
(*    hold, per caller, the position, arguments, locals and answer.        *)
(***************************************************************************)
EXTENDS Integers, Sequences, FiniteSets, TLC

VARIABLES fs, rgInstalled, req, resp, acc, rgOut, pyOut, pc, call, frame, out

vars == <<fs, rgInstalled, req, resp, acc, rgOut, pyOut, pc, call, frame, out>>

(***************************************************************************)
(* Bounds of the model.                                                    *)
(***************************************************************************)
MaxPathLen == 2
MaxCount == 3
MaxOver == 1

(***************************************************************************)
(* Generic helpers.                                                        *)
(***************************************************************************)
Min(a, b) == IF a <= b THEN a ELSE b

Max(a, b) == IF a >= b THEN a ELSE b

\* a slice that takes a negative bound for zero
PySlice_Clamped(s, m) == SubSeq(s, 1, Min(Max(m, 0), Len(s)))

\* s[:m] of Python, m of either sign
PySlice(s, m) ==
  IF m >= 0 THEN SubSeq(s, 1, Min(m, Len(s)))
  ELSE SubSeq(s, 1, Max(Len(s) + m, 0))

IsPrefix(p, s) == Len(p) <= Len(s) /\ SubSeq(s, 1, Len(p)) = p

RECURSIVE Concat(_)
\* the concatenation of a sequence of sequences, halving to keep it shallow
Concat(ss) ==
  IF ss = <<>> THEN <<>>
  ELSE IF Len(ss) = 1 THEN ss[1]
  ELSE LET h == Len(ss) \div 2
       IN Concat(SubSeq(ss, 1, h)) \o Concat(SubSeq(ss, h + 1, Len(ss)))

(***************************************************************************)
(* Characters and text.                                                    *)
(***************************************************************************)
Ch(k, n) == [k |-> k, n |-> n]

NL == Ch("nl", 0)
CR == Ch("cr", 0)
SP == Ch("sp", 0)
BAD == Ch("bad", 0)
COLON == Ch("colon", 0)
SLASH == Ch("slash", 0)
DOT == Ch("dot", 0)

RECURSIVE Newlines(_)
\* universal-newline translation of text mode: "\r\n" and "\r" become "\n"
Newlines(s) ==
  IF s = <<>> THEN <<>>
  ELSE IF Head(s) = CR
       THEN IF Len(s) >= 2 /\ s[2] = NL
            THEN <<NL>> \o Newlines(Tail(Tail(s)))
            ELSE <<NL>> \o Newlines(Tail(s))
       ELSE <<Head(s)>> \o Newlines(Tail(s))

\* read_text(encoding="utf-8", errors="ignore"): undecodable bytes are
\* dropped, then newlines are translated
Decode(bytes) == Newlines(SelectSeq(bytes, LAMBDA b : b.k # "bad"))

RECURSIVE SplitAcc(_, _, _)
SplitAcc(s, cur, keepEnds) ==
  IF s = <<>> THEN (IF cur = <<>> THEN <<>> ELSE <<cur>>)
  ELSE IF Head(s) = NL
       THEN <<(IF keepEnds THEN Append(cur, NL) ELSE cur)>>
            \o SplitAcc(Tail(s), <<>>, keepEnds)
       ELSE SplitAcc(Tail(s), Append(cur, Head(s)), keepEnds)

\* str.splitlines(): the lines without their terminators
SplitLines(text) == SplitAcc(text, <<>>, FALSE)

\* iteration over an open text file: the lines with their terminators
FileLines(text) == SplitAcc(text, <<>>, TRUE)

RECURSIVE JoinLines(_)
\* "\n".join(lines)
JoinLines(ls) ==
  IF ls = <<>> THEN <<>>
  ELSE IF Len(ls) = 1 THEN ls[1]
  ELSE ls[1] \o <<NL>> \o JoinLines(Tail(ls))

IsSpace(c) == c.k \in {"sp", "nl", "cr"}

RECURSIVE LStrip(_)
LStrip(s) == IF s # <<>> /\ IsSpace(Head(s)) THEN LStrip(Tail(s)) ELSE s

RECURSIVE RStrip(_)
RStrip(s) ==
  IF s # <<>> /\ IsSpace(s[Len(s)]) THEN RStrip(SubSeq(s, 1, Len(s) - 1)) ELSE s

\* str.strip()
Strip(s) == RStrip(LStrip(s))

(***************************************************************************)
(* The filesystem.                                                         *)
(***************************************************************************)
BASE_DIR == <<"base">>

DirNode(entries) ==
  [type |-> "dir", entries |-> entries, target |-> <<>>, bytes |-> <<>>,
   size |-> 0, readable |-> TRUE]

FileNode(bytes, size, readable) ==
  [type |-> "file", entries |-> <<>>, target |-> <<>>, bytes |-> bytes,
   size |-> size, readable |-> readable]

LinkNode(target) ==
  [type |-> "link", entries |-> <<>>, target |-> target, bytes |-> <<>>,
   size |-> 0, readable |-> TRUE]

APyBytes ==
  <<Ch("def", 1), CR, NL, Ch("class", 1), NL, Ch("import", 1), NL,
    SP, Ch("W", 1), BAD, NL>>

BTxtBytes == <<Ch("w", 1), COLON, Ch("w", 3), NL, Ch("w", 2), SP, Ch("W", 1), SP>>

MPyBytes == <<Ch("nest", 1), NL, Ch("from", 1)>>

BadPyBytes == <<Ch("def", 2), NL, Ch("junk", 0)>>

BigMdBytes == <<Ch("w", 1), NL, Ch("W", 1), NL, Ch("w", 1)>>

SecretBytes == <<Ch("W", 9), NL, Ch("def", 9)>>

\* The tree under test.  withLinks plants two symlinks in the sandbox whose
\* targets are outside it; badReadable says whether bad.py can be opened.
MkFs(withLinks, badReadable) ==
  LET baseEntries ==
        IF withLinks THEN <<"leak.py", "a.py", "link", "bad.py", "sub", "big.md">>
        ELSE <<"a.py", "bad.py", "sub", "big.md">>
      common ==
        (<<>> :> DirNode(<<"base", "base-evil", "secret">>))
        @@ (<<"base">> :> DirNode(baseEntries))
        @@ (<<"base", "a.py">> :> FileNode(APyBytes, 40, TRUE))
        @@ (<<"base", "bad.py">> :> FileNode(BadPyBytes, 20, badReadable))
        @@ (<<"base", "big.md">> :> FileNode(BigMdBytes, 2048, TRUE))
        @@ (<<"base", "sub">> :> DirNode(<<"main.py", "b.txt">>))
        @@ (<<"base", "sub", "main.py">> :> FileNode(MPyBytes, 30, TRUE))
        @@ (<<"base", "sub", "b.txt">> :> FileNode(BTxtBytes, 10, TRUE))
        @@ (<<"base-evil">> :> DirNode(<<>>))
        @@ (<<"secret">> :> DirNode(<<"s.py">>))
        @@ (<<"secret", "s.py">> :> FileNode(SecretBytes, 25, TRUE))
      links ==
        (<<"base", "link">> :> LinkNode(<<"secret">>))
        @@ (<<"base", "leak.py">> :> LinkNode(<<"secret", "s.py">>))
  IN IF withLinks THEN common @@ links ELSE common

FsConfigs == { MkFs(l, r) : l \in BOOLEAN, r \in BOOLEAN }

\* code-point order of the names that occur inside the tree
NameOrder ==
  <<"a.py", "b.txt", "bad.py", "base", "base-evil", "big.md", "leak.py",
    "link", "main.py", "nope", "s.py", "secret", "sub", "~">>

NameRank(n) == CHOOSE i \in 1..Len(NameOrder) : NameOrder[i] = n

\* PurePath.suffix, lower-cased
SuffixOf(n) ==
  CASE n \in {"a.py", "bad.py", "leak.py", "main.py", "s.py"} -> ".py"
    [] n = "b.txt" -> ".txt"
    [] n = "big.md" -> ".md"
    [] OTHER -> ""

Parent(p) == IF p = <<>> THEN <<>> ELSE SubSeq(p, 1, Len(p) - 1)

\* BASE_DIR / path
Join(base, path) ==
  IF path.lead = "/" THEN path.parts
  ELSE IF path.lead = "~" THEN base \o <<"~">> \o path.parts
  ELSE base \o path.parts

RECURSIVE Walk(_, _, _)
Walk(f, cur, rest) ==
  IF rest = <<>> THEN cur
  ELSE LET c == Head(rest)
           nxt == Append(cur, c)
       IN IF c = "." THEN Walk(f, cur, Tail(rest))
          ELSE IF c = ".." THEN Walk(f, Parent(cur), Tail(rest))
          ELSE IF nxt \in DOMAIN f /\ f[nxt].type = "link"
               THEN Walk(f, f[nxt].target, Tail(rest))
               ELSE Walk(f, nxt, Tail(rest))

\* Path.resolve(): ".." normalised and symlinks followed, missing tails kept
Resolve(f, p) == Walk(f, <<>>, p)

\* the test with the home marker forgotten
HasMarker_SlashOnly(path) == path.lead = "/"

\* str.startswith("~") or str.startswith("/")
HasMarker(path) == path.lead = "~" \/ path.lead = "/"

\* containment tested on the text of the path: str(p).startswith(str(BASE_DIR))
InSandbox_StringPrefix(p) == p # <<>> /\ p[1] \in {"base", "base-evil"}

\* BASE_DIR == p or BASE_DIR in p.parents
InSandbox(p) == IsPrefix(BASE_DIR, p)

Exists(f, p) == p \in DOMAIN f

\* Path.is_dir() and Path.is_file() follow symlinks
IsDir(f, p) == LET q == Resolve(f, p) IN q \in DOMAIN f /\ f[q].type = "dir"

IsFile(f, p) == LET q == Resolve(f, p) IN q \in DOMAIN f /\ f[q].type = "file"

\* Path.relative_to(BASE_DIR) of a path under BASE_DIR
RelToBase(p) == SubSeq(p, Len(BASE_DIR) + 1, Len(p))

Children(f, d) == [i \in 1..Len(f[d].entries) |-> Append(d, f[d].entries[i])]

RealDir(f, p) == p \in DOMAIN f /\ f[p].type = "dir"

RECURSIVE Rglob(_, _)
\* Path.rglob("*"): the entries of the directory, then those of each real
\* subdirectory (the order of CPython 3.11, entries in scandir order); a
\* symlink is yielded as an entry and never descended into
Rglob(f, d) ==
  LET ch == Children(f, d)
  IN ch \o Concat([i \in 1..Len(ch) |->
                     IF RealDir(f, ch[i]) THEN Rglob(f, ch[i]) ELSE <<>>])

RECURSIVE ScannedDirs(_, _)
\* the directories rglob opens when it is run to its end
ScannedDirs(f, d) ==
  LET ch == Children(f, d)
  IN <<d>> \o Concat([i \in 1..Len(ch) |->
                     IF RealDir(f, ch[i]) THEN ScannedDirs(f, ch[i]) ELSE <<>>])

(***************************************************************************)
(* Filesystem accesses of a call, by the physical path they touch.         *)
(***************************************************************************)
Access(op, p) == [op |-> op, path |-> p]

ScanAccesses(f, d) ==
  LET ds == ScannedDirs(f, d) IN [i \in 1..Len(ds) |-> Access("scandir", ds[i])]

Err(kind) == [ok |-> FALSE, error |-> kind]

Ret(r, a) == [resp |-> r, acc |-> a]

(***************************************************************************)
(* ping                                                                    *)
(***************************************************************************)
ping == Ret([ok |-> TRUE, message |-> "pong"], <<>>)

(***************************************************************************)
(* list_files                                                              *)
(***************************************************************************)
RECURSIVE ListLoop(_, _, _, _)
\* the for loop of list_files over the entries still to come
ListLoop(f, todo, files, max_results) ==
  IF todo = <<>> THEN files
  ELSE IF IsFile(f, Head(todo))
       THEN LET files2 == Append(files, RelToBase(Head(todo)))
            IN IF Len(files2) >= max_results THEN files2
               ELSE ListLoop(f, Tail(todo), files2, max_results)
       ELSE ListLoop(f, Tail(todo), files, max_results)

list_files(f, root, max_results) ==
  IF HasMarker(root) THEN Ret(Err("InvalidPath"), <<>>)
  ELSE LET root_path == Resolve(f, Join(BASE_DIR, root))
           a1 == <<Access("resolve", root_path)>>
       IN IF ~InSandbox(root_path) THEN Ret(Err("SecurityError"), a1)
          ELSE IF ~Exists(f, root_path) \/ ~IsDir(f, root_path)
               THEN Ret(Err("NotFound"), a1 \o <<Access("stat", root_path)>>)
          ELSE LET files == ListLoop(f, Rglob(f, root_path), <<>>, max_results)
               IN Ret([ok |-> TRUE, root |-> root, count |-> Len(files),
                       files |-> files],
                      a1 \o <<Access("stat", root_path)>>
                         \o ScanAccesses(f, root_path))

(***************************************************************************)
(* read_file                                                               *)
(***************************************************************************)
read_file(f, path, max_chars) ==
  IF HasMarker(path) THEN Ret(Err("InvalidPath"), <<>>)
  ELSE LET fp == Resolve(f, Join(BASE_DIR, path))
           a1 == <<Access("resolve", fp)>>
           a2 == a1 \o <<Access("stat", fp)>>
       IN IF ~InSandbox(fp) THEN Ret(Err("SecurityError"), a1)
          ELSE IF ~Exists(f, fp) \/ ~IsFile(f, fp) THEN Ret(Err("NotFound"), a2)
          ELSE IF ~f[fp].readable
               THEN Ret(Err("PermissionError"), a2 \o <<Access("open", fp)>>)
          ELSE LET text == Decode(f[fp].bytes)
                   truncated == Len(text) > max_chars
               IN Ret([ok |-> TRUE, path |-> RelToBase(fp),
                       truncated |-> truncated,
                       content |-> PySlice(text, max_chars)],
                      a2 \o <<Access("read", fp)>>)

(***************************************************************************)
(* _summarize_python_ast                                                   *)
(***************************************************************************)
FUNC_CAP == 60
CLASS_CAP == 40
IMPORT_CAP == 80
NoError == "None"

Node(t, name, module, names, body) ==
  [t |-> t, name |-> name, module |-> module, names |-> names, body |-> body]

\* the syntax tree of one statement
AstOf(c) ==
  CASE c.k = "def" -> Node("FunctionDef", "f" \o ToString(c.n), "", <<>>, <<>>)
    [] c.k = "async" -> Node("AsyncFunctionDef", "g" \o ToString(c.n), "", <<>>, <<>>)
    [] c.k = "class" -> Node("ClassDef", "C" \o ToString(c.n), "", <<>>, <<>>)
    [] c.k = "import" -> Node("Import", "", "", <<"m" \o ToString(c.n)>>, <<>>)
    [] c.k = "from" ->
         Node("ImportFrom", "", "pkg" \o ToString(c.n), <<"a", "b">>, <<>>)
    [] c.k = "fromrel" -> Node("ImportFrom", "", "", <<"r" \o ToString(c.n)>>, <<>>)
    [] c.k = "nest" ->
         Node("ClassDef", "K" \o ToString(c.n), "", <<>>,
              <<Node("FunctionDef", "meth" \o ToString(c.n), "", <<>>,
                     <<Node("Import", "", "", <<"lazy" \o ToString(c.n)>>, <<>>)>>)>>)
    [] OTHER -> Node("Expr", "", "", <<>>, <<>>)

\* ast.parse(text): the module's body, or the exception it raises
Parse(text) ==
  IF \E i \in 1..Len(text) : text[i].k = "nul"
  THEN [ok |-> FALSE, exc |-> "ValueError",
        msg |-> "source code string cannot contain null bytes", body |-> <<>>]
  ELSE IF \E i \in 1..Len(text) : text[i].k = "junk"
  THEN [ok |-> FALSE, exc |-> "SyntaxError", msg |-> "invalid syntax",
        body |-> <<>>]
  ELSE [ok |-> TRUE, exc |-> "", msg |-> "",
        body |-> LET st == SelectSeq(text, LAMBDA c : ~IsSpace(c))
                 IN [i \in 1..Len(st) |-> AstOf(st[i])]]

RECURSIVE AstWalk(_)
\* ast.walk: breadth first, the children of a node joining the queue's end;
\* that is the nodes of one depth, in order, then those of the next
AstWalk(level) ==
  IF level = <<>> THEN <<>>
  ELSE level \o AstWalk(Concat([i \in 1..Len(level) |-> level[i].body]))

\* the names one node adds to each list
NodeFunctions(n) ==
  IF n.t \in {"FunctionDef", "AsyncFunctionDef"} THEN <<n.name>> ELSE <<>>

NodeClasses(n) == IF n.t = "ClassDef" THEN <<n.name>> ELSE <<>>

NodeImports(n) ==
  IF n.t = "Import" THEN n.names
  ELSE IF n.t = "ImportFrom"
       THEN [i \in 1..Len(n.names) |->
               IF n.module # "" THEN n.module \o "." \o n.names[i]
               ELSE n.names[i]]
  ELSE <<>>

\* except Exception
Caught(exc) == exc \in {"SyntaxError", "ValueError", "RecursionError", "MemoryError"}

CapFunctions(l) == PySlice(l, FUNC_CAP)

\* the classes cut at the cap of the functions
CapClasses_FunctionCap(l) == PySlice(l, FUNC_CAP)

CapClasses(l) == PySlice(l, CLASS_CAP)

CapImports(l) == PySlice(l, IMPORT_CAP)

_summarize_python_ast(text) ==
  LET tree == Parse(text)
      nodes == AstWalk(tree.body)
      empty == [functions |-> <<>>, classes |-> <<>>, imports |-> <<>>,
                error |-> NoError, raised |-> FALSE]
  IN IF tree.ok
     THEN [functions |-> CapFunctions(Concat([i \in 1..Len(nodes) |-> NodeFunctions(nodes[i])])),
           classes |-> CapClasses(Concat([i \in 1..Len(nodes) |-> NodeClasses(nodes[i])])),
           imports |-> CapImports(Concat([i \in 1..Len(nodes) |-> NodeImports(nodes[i])])),
           error |-> NoError, raised |-> FALSE]
     ELSE IF Caught(tree.exc) THEN [empty EXCEPT !.error = tree.msg]
     ELSE [empty EXCEPT !.raised = TRUE]

(***************************************************************************)
(* explain_repository                                                      *)
(***************************************************************************)
PREVIEW_LINES == 30
ENTRY_CAP == 10
TOP_LEVEL_CAP == 200

RECURSIVE PathLess(_, _)
\* the order of Path objects: component-wise, code-point order of names
PathLess(p, q) ==
  IF p = <<>> THEN q # <<>>
  ELSE IF q = <<>> THEN FALSE
  ELSE IF Head(p) = Head(q) THEN PathLess(Tail(p), Tail(q))
  ELSE NameRank(Head(p)) < NameRank(Head(q))

TopLess(x, y) ==
  \/ x.type = "dir" /\ y.type = "file"
  \/ x.type = y.type /\ NameRank(x.name) < NameRank(y.name)

\* the comparison a sort uses: of paths, or of (type, name) keys
Less(key, x, y) == IF key = "path" THEN PathLess(x, y) ELSE TopLess(x, y)

RECURSIVE Insert(_, _, _)
Insert(x, s, key) ==
  IF s = <<>> THEN <<x>>
  ELSE IF Less(key, x, Head(s)) THEN <<x>> \o s
  ELSE <<Head(s)>> \o Insert(x, Tail(s), key)

RECURSIVE Sorted(_, _)
\* sorted(s), stable
Sorted(s, key) ==
  IF s = <<>> THEN <<>>
  ELSE Insert(s[Len(s)], Sorted(SubSeq(s, 1, Len(s) - 1), key), key)

\* sorted([p for p in root_path.rglob("*.py") if p.is_file()])[:max_files]
PyFiles(f, root_path, max_files) ==
  LET all == Rglob(f, root_path)
      py == SelectSeq(all, LAMBDA p : SuffixOf(p[Len(p)]) = ".py" /\ IsFile(f, p))
  IN PySlice(Sorted(py, "path"), max_files)

\* low.endswith(("main.py", "__main__.py")) or low in ("app.py", "server.py")
IsEntryPoint(rel) ==
  \/ rel[Len(rel)] \in {"main.py", "__main__.py"}
  \/ rel \in {<<"app.py">>, <<"server.py">>}

\* the tree of the root's immediate children, sorted by (type, name)
TopLevel(f, root_path) ==
  LET ch == Children(f, root_path)
      tl == [i \in 1..Len(ch) |->
               [name |-> ch[i][Len(ch[i])],
                type |-> IF IsDir(f, ch[i]) THEN "dir" ELSE "file"]]
  IN PySlice(Sorted(tl, "top"), TOP_LEVEL_CAP)

\* one pass of the body of the for loop over py_files
Summary(f, fp, max_chars_per_file) ==
  LET text == PySlice(Decode(f[Resolve(f, fp)].bytes), max_chars_per_file)
  IN [path |-> RelToBase(fp),
      structure |-> _summarize_python_ast(text),
      preview |-> JoinLines(PySlice(SplitLines(text), PREVIEW_LINES))]

RECURSIVE ExplainLoop(_, _, _, _, _, _)
\* the for loop of explain_repository; read_text raising ends the call
ExplainLoop(f, todo, summaries, entries, a, max_chars_per_file) ==
  IF todo = <<>>
  THEN [ok |-> TRUE, error |-> "", summaries |-> summaries, entries |-> entries,
        acc |-> a]
  ELSE LET fp == Head(todo)
           phys == Resolve(f, fp)
           rel == RelToBase(fp)
           entries2 == IF IsEntryPoint(rel) THEN Append(entries, rel) ELSE entries
       IN IF ~f[phys].readable
          THEN [ok |-> FALSE, error |-> "PermissionError", summaries |-> summaries,
                entries |-> entries2, acc |-> Append(a, Access("open", phys))]
          ELSE LET sm == Summary(f, fp, max_chars_per_file)
               IN IF sm.structure.raised
                  THEN [ok |-> FALSE, error |-> "Exception", summaries |-> summaries,
                        entries |-> entries2, acc |-> Append(a, Access("read", phys))]
                  ELSE ExplainLoop(f, Tail(todo), Append(summaries, sm), entries2,
                                   Append(a, Access("read", phys)),
                                   max_chars_per_file)

explain_repository(f, root, max_files, max_chars_per_file) ==
  IF HasMarker(root) THEN Ret(Err("InvalidPath"), <<>>)
  ELSE LET root_path == Resolve(f, Join(BASE_DIR, root))
           a1 == <<Access("resolve", root_path)>>
           a2 == a1 \o <<Access("stat", root_path)>>
       IN IF ~InSandbox(root_path) THEN Ret(Err("SecurityError"), a1)
          ELSE IF ~Exists(f, root_path) \/ ~IsDir(f, root_path)
               THEN Ret(Err("NotFound"), a2)
          ELSE LET py_files == PyFiles(f, root_path, max_files)
                   lp == ExplainLoop(f, py_files, <<>>, <<>>,
                                     a2 \o ScanAccesses(f, root_path),
                                     max_chars_per_file)
               IN IF ~lp.ok THEN Ret(Err(lp.error), lp.acc)
                  ELSE Ret([ok |-> TRUE, root |-> root,
                            python_files_scanned |-> Len(py_files),
                            entry_point_candidates |-> PySlice(lp.entries, ENTRY_CAP),
                            top_level |-> TopLevel(f, root_path),
                            file_summaries |-> lp.summaries],
                           Append(lp.acc, Access("scandir", root_path)))

(***************************************************************************)
(* _safe_resolve and smart_search                                          *)
(***************************************************************************)
\* the names the module binds: its imports and its own definitions
ModuleNames ==
  {"annotations", "Path", "FastMCP", "os", "ast", "mcp", "BASE_DIR", "ping",
   "list_files", "read_file", "_summarize_python_ast", "explain_repository",
   "_safe_resolve", "smart_search"}

Bound(name) == name \in ModuleNames

_safe_resolve(f, rel_path) ==
  IF HasMarker(rel_path)
  THEN [ok |-> FALSE, exc |-> "ValueError", p |-> <<>>, acc |-> <<>>]
  ELSE LET p == Resolve(f, Join(BASE_DIR, rel_path))
       IN IF ~InSandbox(p)
          THEN [ok |-> FALSE, exc |-> "PermissionError", p |-> p,
                acc |-> <<Access("resolve", p)>>]
          ELSE [ok |-> TRUE, exc |-> "", p |-> p, acc |-> <<Access("resolve", p)>>]

\* the except clauses of smart_search, in order
ExceptMap(exc) ==
  IF exc = "ValueError" THEN "InvalidPath"
  ELSE IF exc = "PermissionError" THEN "SecurityError"
  ELSE exc

EXTS == {".py", ".md", ".txt", ".toml", ".yaml", ".yml", ".json", ".env", ".ini", ".cfg"}

KB == 1024

\* whether the pattern can be compiled: "(" alone is no regular expression
Compiles(query, use_regex) == ~(use_regex /\ query.k = "paren")

\* pattern.search(line) for the compiled query
CharMatches(query, c, use_regex, case_sensitive) ==
  IF query.k = "dot"
  THEN IF use_regex THEN c.k # "nl" ELSE c.k = "dot"
  ELSE IF query.k \in {"w", "W"}
  THEN c.k \in {"w", "W"} /\ c.n = query.n /\ (case_sensitive => c.k = query.k)
  ELSE c.k = query.k /\ c.n = query.n

LineMatches(query, line, use_regex, case_sensitive) ==
  \/ query.k = "empty"
  \/ \E i \in 1..Len(line) : CharMatches(query, line[i], use_regex, case_sensitive)

Hit(path, line, text) == [path |-> path, line |-> line, text |-> text]

SearchOk(engine, a, hits, truncated) ==
  [ok |-> TRUE, engine |-> engine, query |-> a.query, root |-> a.root,
   hits |-> hits, truncated |-> truncated]

RECURSIVE ScanLines(_, _, _, _, _)
\* the loop over the lines of one open file; full tells that max_hits was
\* reached and the function returned from inside the loop
ScanLines(a, rel, lines, i, hits) ==
  IF i > Len(lines) THEN [hits |-> hits, full |-> FALSE]
  ELSE IF LineMatches(a.query, lines[i], a.use_regex, a.case_sensitive)
       THEN LET hits2 == Append(hits, Hit(rel, i, Strip(lines[i])))
            IN IF Len(hits2) >= a.max_hits THEN [hits |-> hits2, full |-> TRUE]
               ELSE ScanLines(a, rel, lines, i + 1, hits2)
       ELSE ScanLines(a, rel, lines, i + 1, hits)

RECURSIVE FallbackLoop(_, _, _, _, _)
\* the loop of the Python fallback over the entries rglob yields
FallbackLoop(f, a, todo, hits, ac) ==
  IF todo = <<>> THEN Ret(SearchOk("python", a, hits, FALSE), ac)
  ELSE LET fp == Head(todo)
           phys == Resolve(f, fp)
       IN IF ~IsFile(f, fp) THEN FallbackLoop(f, a, Tail(todo), hits, ac)
          ELSE IF SuffixOf(fp[Len(fp)]) \notin EXTS
               THEN FallbackLoop(f, a, Tail(todo), hits, ac)
          ELSE IF f[phys].size > a.max_file_size_kb * KB
               THEN FallbackLoop(f, a, Tail(todo), hits, ac)
          ELSE IF ~f[phys].readable
               THEN FallbackLoop(f, a, Tail(todo), hits, Append(ac, Access("open", phys)))
          ELSE LET r == ScanLines(a, RelToBase(fp), FileLines(Decode(f[phys].bytes)),
                                  1, hits)
                   ac2 == Append(ac, Access("read", phys))
               IN IF r.full THEN Ret(SearchOk("python", a, r.hits, TRUE), ac2)
                  ELSE FallbackLoop(f, a, Tail(todo), r.hits, ac2)

python_fallback(f, a, root_path, ac) ==
  IF ~Compiles(a.query, a.use_regex) THEN Ret(Err("error"), ac)
  ELSE FallbackLoop(f, a, Rglob(f, root_path), <<>>, ac \o ScanAccesses(f, root_path))

RECURSIVE PathChars(_)
\* a relative path as the characters of its text
PathChars(rel) ==
  IF rel = <<>> THEN <<>>
  ELSE <<SLASH, Ch("name", NameRank(Head(rel)))>> \o PathChars(Tail(rel))

RECURSIVE RgFileLines(_, _, _, _)
RgFileLines(a, rel, lines, i) ==
  IF i > Len(lines) THEN <<>>
  ELSE (IF LineMatches(a.query, lines[i], a.use_regex, a.case_sensitive)
        THEN <<<<DOT>> \o PathChars(rel) \o <<COLON, Ch("num", i), COLON>> \o lines[i]>>
        ELSE <<>>)
       \o RgFileLines(a, rel, lines, i + 1)

\* what the rg process started by subprocess.run with these rg_args and
\* cwd prints: one line "./path:line:text" per matching line of every
\* regular file under the root that is no larger than the ceiling
RgStdout(f, a, root_path) ==
  IF ~Compiles(a.query, a.use_regex) THEN <<>>
  ELSE LET all == Rglob(f, root_path)
           reg == SelectSeq(all, LAMBDA p :
                    p \in DOMAIN f /\ f[p].type = "file" /\ f[p].readable
                    /\ f[p].size <= a.max_file_size_kb * KB)
       IN Concat([j \in 1..Len(reg) |->
            RgFileLines(a, SubSeq(reg[j], Len(root_path) + 1, Len(reg[j])),
                        SplitLines(Decode(f[reg[j]].bytes)), 1)])

RECURSIVE SplitColon(_, _, _)
\* line.split(":", maxsplit)
SplitColon(line, cur, maxsplit) ==
  IF line = <<>> THEN <<cur>>
  ELSE IF maxsplit > 0 /\ Head(line) = COLON
       THEN <<cur>> \o SplitColon(Tail(line), <<>>, maxsplit - 1)
       ELSE SplitColon(Tail(line), Append(cur, Head(line)), maxsplit)

\* int(ln) succeeds on one number, surrounding blanks aside
IsInt(ln) == LET t == Strip(ln) IN Len(t) = 1 /\ t[1].k = "num"

IntOf(ln) == Strip(ln)[1].n

\* Path(root) / pth, as_posix(): "." components vanish
HitPath(root, pth) ==
  LET names == SelectSeq(pth, LAMBDA c : c.k = "name")
  IN SelectSeq(root.parts, LAMBDA n : n # ".")
     \o [i \in 1..Len(names) |-> NameOrder[names[i].n]]

RECURSIVE RgLoop(_, _, _)
\* the loop over proc.stdout.splitlines(); bad tells that int(ln) raised
RgLoop(a, lines, hits) ==
  IF lines = <<>> THEN [hits |-> hits, bad |-> FALSE]
  ELSE LET parts == SplitColon(Head(lines), <<>>, 2)
       IN IF Len(parts) = 3
          THEN IF ~IsInt(parts[2]) THEN [hits |-> hits, bad |-> TRUE]
               ELSE LET hits2 == Append(hits, Hit(HitPath(a.root, parts[1]),
                                                  IntOf(parts[2]), Strip(parts[3])))
                    IN IF Len(hits2) >= a.max_hits THEN [hits |-> hits2, bad |-> FALSE]
                       ELSE RgLoop(a, Tail(lines), hits2)
          ELSE RgLoop(a, Tail(lines), hits)

ripgrep_branch(f, a, root_path, ac) ==
  LET r == RgLoop(a, RgStdout(f, a, root_path), <<>>)
      ac2 == Append(ac, Access("subprocess", root_path))
  IN IF r.bad THEN Ret(Err(ExceptMap("ValueError")), ac2)
     ELSE Ret(SearchOk("ripgrep", a, r.hits, Len(r.hits) >= a.max_hits), ac2)

\* the body of smart_search once the root is known to be a directory:
\* shutil.which, then one of the two engines
Engines(f, rg, a, root_path, ac) ==
  IF rg THEN ripgrep_branch(f, a, root_path, ac)
  ELSE python_fallback(f, a, root_path, ac)

smart_search(f, rg, a) ==
  LET r == _safe_resolve(f, a.root)
      a2 == r.acc \o <<Access("stat", r.p)>>
  IN IF ~r.ok THEN Ret(Err(ExceptMap(r.exc)), r.acc)
     ELSE IF ~Exists(f, r.p) \/ ~IsDir(f, r.p) THEN Ret(Err("NotFound"), a2)
     ELSE IF ~Bound("shutil") THEN Ret(Err(ExceptMap("NameError")), a2)
     ELSE IF rg /\ ~Bound("subprocess") THEN Ret(Err(ExceptMap("NameError")), a2)
     ELSE IF ~rg /\ ~Bound("re") THEN Ret(Err(ExceptMap("NameError")), a2)
     ELSE Engines(f, rg, a, r.p, a2)

(***************************************************************************)
(* The inputs of the calls.                                                *)
(***************************************************************************)
Components ==
  {"..", "sub", "a.py", "main.py", "link", "leak.py", "secret", "base",
   "base-evil", "nope"}

SeqsUpTo(S, n) == UNION { [1..k -> S] : k \in 0..n }

Paths == [lead : {"", "/", "~"}, parts : SeqsUpTo(Components, MaxPathLen)]

Counts == -1..MaxCount

Queries == {Ch("w", 1), Ch("W", 1), Ch("w", 7), Ch("dot", 0), Ch("paren", 0), Ch("empty", 0)}

SearchArgs(roots, queries, hitCounts, sizes) ==
  [query : queries, root : roots, use_regex : BOOLEAN, case_sensitive : BOOLEAN,
   max_hits : hitCounts, max_file_size_kb : sizes]

\* n statements, the i-th of the class kinds[i mod Len(kinds)], one per line
Repeat(kinds, n) ==
  [j \in 1..(2 * n) |->
     IF j % 2 = 1 THEN Ch(kinds[(((j + 1) \div 2) % Len(kinds)) + 1], (j + 1) \div 2)
     ELSE NL]

CapCounts(cap) == {0, 2} \cup { cap + d : d \in -1..MaxOver }

Tails == {<<>>, <<Ch("junk", 0)>>, <<Ch("nul", 0)>>, <<Ch("w", 1)>>}

SourceTexts ==
  { Repeat(<<"def", "async">>, nf) \o Repeat(<<"class", "nest">>, nc)
      \o Repeat(<<"import", "fromrel", "from">>, ni) \o t :
    nf \in CapCounts(FUNC_CAP), nc \in CapCounts(CLASS_CAP),
    ni \in CapCounts(IMPORT_CAP), t \in Tails }

NoReq == [op |-> "none"]

(***************************************************************************)
(* The server, one call at a time.  The tools keep nothing between calls,  *)
(* so a behaviour is one call made on the initial state.                   *)
(***************************************************************************)
Idle == req = NoReq

OtherVarsInit ==
  /\ rgOut = NoReq /\ pyOut = NoReq
  /\ pc = <<>> /\ call = <<>> /\ frame = <<>> /\ out = <<>>

Init ==
  /\ fs \in FsConfigs
  /\ rgInstalled \in BOOLEAN
  /\ req = NoReq /\ resp = NoReq /\ acc = <<>>
  /\ OtherVarsInit

Returns(r) == resp' = r.resp /\ acc' = r.acc

Rest == UNCHANGED <<fs, rgInstalled, rgOut, pyOut, pc, call, frame, out>>

Ping ==
  /\ Idle
  /\ req' = [op |-> "ping"]
  /\ Returns(ping)
  /\ Rest

ListFiles ==
  /\ Idle
  /\ \E root \in Paths, max_results \in Counts \cup {200} :
       /\ req' = [op |-> "list_files", path |-> root, max_results |-> max_results]
       /\ Returns(list_files(fs, root, max_results))
  /\ Rest

ReadFile ==
  /\ Idle
  /\ \E path \in Paths, max_chars \in Counts \cup {20000} :
       /\ req' = [op |-> "read_file", path |-> path, max_chars |-> max_chars]
       /\ Returns(read_file(fs, path, max_chars))
  /\ Rest

ExplainRepository ==
  /\ Idle
  /\ \E root \in Paths, max_files \in Counts \cup {60}, max_chars_per_file \in {1, 12000} :
       /\ req' = [op |-> "explain_repository", path |-> root, max_files |-> max_files,
                  max_chars_per_file |-> max_chars_per_file]
       /\ Returns(explain_repository(fs, root, max_files, max_chars_per_file))
  /\ Rest

SmartSearch ==
  /\ Idle
  /\ \E a \in SearchArgs(Paths, {Ch("w", 1), Ch("paren", 0)}, {0, 1, 50}, {512}) :
       /\ req' = [op |-> "smart_search", path |-> a.root, a |-> a]
       /\ Returns(smart_search(fs, rgInstalled, a))
  /\ Rest

Summarize ==
  /\ Idle
  /\ \E text \in SourceTexts :
       /\ req' = [op |-> "_summarize_python_ast", text |-> text]
       /\ resp' = _summarize_python_ast(text)
       /\ acc' = <<>>
  /\ Rest

Next == Ping \/ ListFiles \/ ReadFile \/ ExplainRepository \/ SmartSearch \/ Summarize

Spec == Init /\ [][Next]_vars

(***************************************************************************)
(* The two engines of smart_search side by side: the branch bodies         *)
(* applied, as functions of their inputs, to the same directory and        *)
(* arguments.                                                              *)
(***************************************************************************)
SandboxDirs(f) ==
  { pth \in [lead : {""}, parts : SeqsUpTo({"sub", ".."}, MaxPathLen)] :
      LET q == Resolve(f, Join(BASE_DIR, pth))
      IN InSandbox(q) /\ Exists(f, q) /\ IsDir(f, q) }

RunRipgrep ==
  /\ req = NoReq
  /\ \E a \in SearchArgs(SandboxDirs(fs), Queries, Counts \cup {50}, {0, 1, 512}) :
       /\ req' = [op |-> "engines", path |-> a.root, a |-> a]
       /\ rgOut' = ripgrep_branch(fs, a, _safe_resolve(fs, a.root).p, <<>>).resp
  /\ UNCHANGED <<fs, rgInstalled, resp, acc, pyOut, pc, call, frame, out>>

RunFallback ==
  /\ req # NoReq /\ pyOut = NoReq
  /\ pyOut' = python_fallback(fs, req.a, _safe_resolve(fs, req.a.root).p, <<>>).resp
  /\ UNCHANGED <<fs, rgInstalled, req, resp, acc, rgOut, pc, call, frame, out>>

NextEngines == RunRipgrep \/ RunFallback

SpecEngines == Init /\ [][NextEngines]_vars

(***************************************************************************)
(* Two callers at once.  Each call advances by steps of its own (resolve,  *)
(* check, one pass of its loop, return) and the steps of the two calls     *)
(* interleave freely.                                                      *)
(***************************************************************************)
Callers == {1, 2}

\* a call as one sequential run of its handler
Handle(f, rg, r) ==
  CASE r.op = "ping" -> ping.resp
    [] r.op = "list_files" -> list_files(f, r.path, r.max_results).resp
    [] r.op = "read_file" -> read_file(f, r.path, r.max_chars).resp
    [] r.op = "explain_repository" ->
         explain_repository(f, r.path, r.max_files, r.max_chars_per_file).resp
    [] r.op = "smart_search" -> smart_search(f, rg, r.a).resp

P(parts) == [lead |-> "", parts |-> parts]

ConcRequests ==
  {[op |-> "ping"]}
  \cup [op : {"list_files"},
        path : {P(<<>>), P(<<"sub">>), P(<<"link">>), [lead |-> "~", parts |-> <<>>]},
        max_results : {1, 200}]
  \cup [op : {"read_file"}, path : {P(<<"a.py">>), P(<<"sub", "main.py">>), P(<<"nope">>)},
        max_chars : {2, 20000}]
  \cup [op : {"explain_repository"}, path : {P(<<>>), P(<<"sub">>)},
        max_files : {1, 60}, max_chars_per_file : {12000}]
  \cup { [op |-> "smart_search", path |-> a.root, a |-> a] :
         a \in SearchArgs({P(<<>>), P(<<"..", "secret">>)}, {Ch("w", 1)}, {50}, {512}) }

\* the locals kept in one module-level place shared by all calls
FrameOf_Shared(c) == 1

\* the locals of a call live in the frame of that call
FrameOf(c) == c

NoFrame == [root_path |-> <<>>, todo |-> <<>>, files |-> <<>>, entries |-> <<>>]

InitConc ==
  /\ fs \in FsConfigs
  /\ rgInstalled \in BOOLEAN
  /\ req = NoReq /\ resp = NoReq /\ acc = <<>>
  /\ rgOut = NoReq /\ pyOut = NoReq
  /\ pc = [c \in Callers |-> "idle"]
  /\ call = [c \in Callers |-> [r |-> NoReq, overlapped |-> FALSE]]
  /\ frame = [c \in Callers |-> NoFrame]
  /\ out = [c \in Callers |-> NoReq]

Fixed == UNCHANGED <<fs, rgInstalled, req, resp, acc, rgOut, pyOut>>

Goto(c, label) == pc' = [pc EXCEPT ![c] = label]

Reply(c, r) == out' = [out EXCEPT ![c] = r] /\ Goto(c, "done")

\* the call arrives and its handler is entered
Begin(c) ==
  /\ pc[c] = "idle"
  /\ \E r \in ConcRequests :
       call' = [call EXCEPT ![c] =
                  [r |-> r,
                   overlapped |-> \E d \in Callers \ {c} : pc[d] \notin {"idle", "done"}]]
  /\ frame' = [frame EXCEPT ![FrameOf(c)] = NoFrame]
  /\ Goto(c, "resolve")
  /\ UNCHANGED out
  /\ Fixed

\* the marker test and the resolution of the path
StepResolve(c) ==
  /\ pc[c] = "resolve"
  /\ LET r == call[c].r
     IN IF r.op = "ping"
        THEN Reply(c, [ok |-> TRUE, message |-> "pong"]) /\ UNCHANGED frame
        ELSE IF HasMarker(r.path)
        THEN Reply(c, Err("InvalidPath")) /\ UNCHANGED frame
        ELSE /\ frame' = [frame EXCEPT ![FrameOf(c)].root_path =
                                           Resolve(fs, Join(BASE_DIR, r.path))]
             /\ Goto(c, "check")
             /\ UNCHANGED out
  /\ UNCHANGED call
  /\ Fixed

\* the sandbox test, the existence test and the start of the traversal
StepCheck(c) ==
  /\ pc[c] = "check"
  /\ LET r == call[c].r
         k == FrameOf(c)
         root_path == frame[k].root_path
     IN IF ~InSandbox(root_path)
        THEN Reply(c, Err("SecurityError")) /\ UNCHANGED frame
        ELSE IF r.op = "read_file"
        THEN IF ~Exists(fs, root_path) \/ ~IsFile(fs, root_path)
             THEN Reply(c, Err("NotFound")) /\ UNCHANGED frame
             ELSE Goto(c, "read") /\ UNCHANGED <<frame, out>>
        ELSE IF ~Exists(fs, root_path) \/ ~IsDir(fs, root_path)
        THEN Reply(c, Err("NotFound")) /\ UNCHANGED frame
        ELSE IF r.op = "smart_search"
        THEN Goto(c, "which") /\ UNCHANGED <<frame, out>>
        ELSE /\ frame' = [frame EXCEPT ![k].todo =
                            IF r.op = "list_files" THEN Rglob(fs, root_path)
                            ELSE PyFiles(fs, root_path, r.max_files)]
             /\ Goto(c, "scan")
             /\ UNCHANGED out
  /\ UNCHANGED call
  /\ Fixed

\* read_file reads the text and returns
StepRead(c) ==
  /\ pc[c] = "read"
  /\ LET r == call[c].r
         fp == frame[FrameOf(c)].root_path
         text == Decode(fs[fp].bytes)
     IN IF ~fs[fp].readable THEN Reply(c, Err("PermissionError"))
        ELSE Reply(c, [ok |-> TRUE, path |-> RelToBase(fp),
                       truncated |-> Len(text) > r.max_chars,
                       content |-> PySlice(text, r.max_chars)])
  /\ UNCHANGED <<call, frame>>
  /\ Fixed

\* one pass of the loop of list_files or of explain_repository
StepScan(c) ==
  /\ pc[c] = "scan"
  /\ LET r == call[c].r
         k == FrameOf(c)
         fr == frame[k]
     IN IF fr.todo = <<>> THEN Goto(c, "finish") /\ UNCHANGED <<frame, out>>
        ELSE LET p == Head(fr.todo)
                 rel == RelToBase(p)
             IN IF r.op = "list_files"
                THEN IF IsFile(fs, p)
                     THEN /\ frame' = [frame EXCEPT ![k].todo = Tail(fr.todo),
                                                    ![k].files = Append(fr.files, rel)]
                          /\ Goto(c, IF Len(fr.files) + 1 >= r.max_results
                                     THEN "finish" ELSE "scan")
                          /\ UNCHANGED out
                     ELSE /\ frame' = [frame EXCEPT ![k].todo = Tail(fr.todo)]
                          /\ UNCHANGED <<pc, out>>
                ELSE IF ~fs[Resolve(fs, p)].readable
                     THEN Reply(c, Err("PermissionError")) /\ UNCHANGED frame
                     ELSE /\ frame' =
                               [frame EXCEPT
                                  ![k].todo = Tail(fr.todo),
                                  ![k].entries = IF IsEntryPoint(rel)
                                                 THEN Append(fr.entries, rel)
                                                 ELSE fr.entries,
                                  ![k].files = Append(fr.files,
                                                Summary(fs, p, r.max_chars_per_file))]
                          /\ UNCHANGED <<pc, out>>
  /\ UNCHANGED call
  /\ Fixed

\* smart_search looks for the rg executable
StepWhich(c) ==
  /\ pc[c] = "which"
  /\ LET r == call[c].r
         k == FrameOf(c)
     IN IF ~Bound("shutil") \/ (rgInstalled /\ ~Bound("subprocess"))
           \/ (~rgInstalled /\ ~Bound("re"))
        THEN Reply(c, Err("NameError"))
        ELSE Reply(c, Engines(fs, rgInstalled, r.a, frame[k].root_path, <<>>).resp)
  /\ UNCHANGED <<call, frame>>
  /\ Fixed

\* the return statement of list_files or of explain_repository
StepFinish(c) ==
  /\ pc[c] = "finish"
  /\ LET r == call[c].r
         fr == frame[FrameOf(c)]
     IN IF r.op = "list_files"
        THEN Reply(c, [ok |-> TRUE, root |-> r.path, count |-> Len(fr.files),
                       files |-> fr.files])
        ELSE Reply(c, [ok |-> TRUE, root |-> r.path,
                       python_files_scanned |-> Len(fr.files),
                       entry_point_candidates |-> PySlice(fr.entries, ENTRY_CAP),
                       top_level |-> TopLevel(fs, fr.root_path),
                       file_summaries |-> fr.files])
  /\ UNCHANGED <<call, frame>>
  /\ Fixed

NextConc ==
  \E c \in Callers :
    \/ Begin(c)
    \/ StepResolve(c)
    \/ StepCheck(c)
    \/ StepRead(c)
    \/ StepScan(c)
    \/ StepWhich(c)
    \/ StepFinish(c)

SpecConc == InitConc /\ [][NextConc]_vars

(***************************************************************************)
(* Properties.                                                             *)
(***************************************************************************)
PathOps == {"list_files", "read_file", "explain_repository", "smart_search"}

\* where the caller's path leads once joined to the base and resolved
Target == Resolve(fs, Join(BASE_DIR, req.path))

Inside(p) == Len(p) >= 1 /\ p[1] = "base"

RootIsSandboxDir ==
  /\ req.path.lead = ""
  /\ Inside(Target)
  /\ Target \in DOMAIN fs /\ fs[Target].type = "dir"

\* C1: a path without a leading "/" or "~" that resolves outside the base
\* directory makes each of the four tools answer SecurityError, whether or
\* not the target exists.
C1_EscapeIsSecurityError ==
  (req.op \in PathOps /\ req.path.lead = "" /\ ~Inside(Target))
    => resp = Err("SecurityError")

C1_Witness ==
  /\ req.op = "smart_search"
  /\ req.path = [lead |-> "", parts |-> <<"link">>]
  /\ <<"base", "link">> \in DOMAIN fs
  /\ Target = <<"secret">> /\ Target \in DOMAIN fs
  /\ resp = Err("SecurityError")

\* C2: a path that begins with "/" or "~" makes each of the four tools
\* answer InvalidPath without any filesystem access in that call.
C2_MarkerIsInvalidPath ==
  (req.op \in PathOps /\ req.path.lead \in {"/", "~"})
    => (resp = Err("InvalidPath") /\ acc = <<>>)

C2_Witness ==
  /\ req.op = "explain_repository"
  /\ req.path = [lead |-> "~", parts |-> <<"sub">>]
  /\ resp = Err("InvalidPath")
  /\ acc = <<>>

\* C3: every file read and every directory enumerated by a call lies
\* physically inside the base directory.
C3_AccessConfined ==
  \A i \in 1..Len(acc) :
    acc[i].op \in {"read", "scandir"} => Inside(acc[i].path)

\* the number of lines under the root that match the query
MatchCount ==
  LET r == python_fallback(fs, [req.a EXCEPT !.max_hits = 1000000], Target, <<>>).resp
  IN IF r.ok THEN Len(r.hits) ELSE 0

\* C4: smart_search on a directory of the sandbox returns at most max_hits
\* hits, and reports truncated whenever more than max_hits lines match.
C4_HitCap ==
  (req.op = "smart_search" /\ RootIsSandboxDir)
    => /\ resp.ok => Len(resp.hits) <= req.a.max_hits
       /\ MatchCount > req.a.max_hits => (resp.ok /\ resp.truncated)

\* C5: smart_search on a directory of the sandbox succeeds and names the
\* engine that ran: the fallback when rg is absent, rg when it is present.
C5_EngineRecorded ==
  (req.op = "smart_search" /\ RootIsSandboxDir)
    => (resp.ok /\ resp.engine = (IF rgInstalled THEN "ripgrep" ELSE "python"))

ReadText == Decode(fs[Target].bytes)

\* C6 as stated: for every integer max_chars, read_file returns the whole
\* text and truncated = false when max_chars >= N, and a prefix of length
\* exactly max_chars and truncated = true when max_chars < N.
C6_AsStated ==
  (req.op = "read_file" /\ resp.ok)
    => IF req.max_chars >= Len(ReadText)
       THEN resp.content = ReadText /\ ~resp.truncated
       ELSE /\ resp.content = SubSeq(ReadText, 1, Len(resp.content))
            /\ Len(resp.content) = req.max_chars
            /\ resp.truncated

\* C6 amended: the whole text and truncated = false when max_chars >= N; a
\* prefix of length max_chars and truncated = true when 0 <= max_chars < N;
\* the text without its last -max_chars characters (nothing when N is
\* smaller) and truncated = true when max_chars < 0.
C6_ReadFileTruncation ==
  (req.op = "read_file" /\ resp.ok)
    => LET N == Len(ReadText)
           m == req.max_chars
           want == IF m >= N THEN N ELSE IF m >= 0 THEN m
                   ELSE IF N + m >= 0 THEN N + m ELSE 0
       IN /\ resp.content = SubSeq(ReadText, 1, want)
          /\ resp.truncated = (m < N)

C6_Witness ==
  /\ req.op = "read_file" /\ resp.ok
  /\ req.max_chars = -1
  /\ Len(ReadText) = 3
  /\ Len(resp.content) = 2 /\ resp.truncated

\* C7: a traversing tool called on a directory of the sandbox succeeds
\* whatever happens on a single file under it.
C7_PerFileErrorsSwallowed ==
  (/\ req.op \in {"list_files", "explain_repository", "smart_search"}
   /\ req.op = "smart_search" => (~rgInstalled /\ Compiles(req.a.query, req.a.use_regex))
   /\ RootIsSandboxDir)
    => resp.ok

AllNodes == AstWalk(Parse(req.text).body)

AllFunctions ==
  LET ns == AllNodes IN Concat([i \in 1..Len(ns) |-> NodeFunctions(ns[i])])

AllClasses ==
  LET ns == AllNodes IN Concat([i \in 1..Len(ns) |-> NodeClasses(ns[i])])

AllImports ==
  LET ns == AllNodes IN Concat([i \in 1..Len(ns) |-> NodeImports(ns[i])])

C10_EnginesAgree ==
  (rgOut # NoReq /\ pyOut # NoReq)
    => /\ rgOut.ok = pyOut.ok
       /\ rgOut.ok => /\ Len(rgOut.hits) = Len(pyOut.hits)
                       /\ rgOut.truncated = pyOut.truncated

\* every finished call has answered what its handler answers run alone
CallsAnswerAsAlone ==
  \A c \in Callers :
    pc[c] = "done" => out[c] = Handle(fs, rgInstalled, call[c].r)

\* C8: two calls issued concurrently over an unchanged filesystem each get
\* the response they get when run one after the other, and no step of a
\* call writes the filesystem or the environment the other call reads.
C8_ConcurrentAsSequential ==
  /\ []CallsAnswerAsAlone
  /\ [][fs' = fs /\ rgInstalled' = rgInstalled]_vars

C8_Witness ==
  /\ pc[1] = "done" /\ pc[2] = "done"
  /\ call[1].overlapped \/ call[2].overlapped
  /\ call[1].r.op = "list_files" /\ out[1].ok /\ out[1].count > 1
  /\ call[2].r.op = "explain_repository" /\ out[2].ok
  /\ Len(out[2].file_summaries) > 1

====
